---- MODULE Spec2Model ----
(***************************************************************************)
(* life-nd: Conway's Game of Life generalised to N dimensions.             *)
(* A model of src/src/sim.rs (LifeSimulator): the coordinate codec, the    *)
(* rule thresholds computed by new, get_neighbor_indices and step.         *)
(*                                                                         *)
(* Coordinates are Rust slices indexed from 0; here they are sequences, so *)
(* axis d of the source is position d + 1 of the sequence.  Cell indices   *)
(* keep the source's 0-based numbering; cells[i + 1] is the cell at i.     *)
(***************************************************************************)
EXTENDS Integers, Sequences, FiniteSets, TLC

\* ------------------------------------------------------------------ bounds
\* Largest number of dimensions of a grid of the stepping machine.
MaxDim == 6
\* Largest axis length of a grid of the stepping machine.
MaxSize == 5
\* Largest number of cells of a grid of the stepping machine.
MaxCells == 9
\* Largest number of dimensions of a grid the pure queries are run on.
QMaxDim == 3
\* Largest axis length of a grid the pure queries are run on.
QMaxSize == 4

\* ------------------------------------------------------------- arithmetic
\* usize::pow / u32::pow (no overflow within the bounds above).
RECURSIVE Pow(_, _)
Pow(b, e) ==
    IF e = 0 THEN 1 ELSE b * Pow(b, e - 1)

\* enum Cell
Cell == {"Dead", "Alive"}

\* enum LifeRules
LifeRules == {"BasicRules", "PercentageRules"}

\* ----------------------------------------------------------- new: thresholds
\* let num_neighbors = 3u32.pow(dimensions) - 1;
num_neighbors(dimensions) ==
    Pow(3, dimensions) - 1

\* Both variants: num_neighbors / 4 (u32 division truncates).
new_min_neighbors(rules, n) ==
    IF rules = "BasicRules" THEN n \div 4 ELSE n \div 4

\* A variant that truncates the product instead of taking its ceiling.
new_min_breed_neighbors_trunc(rules, n) ==
    IF rules = "BasicRules" THEN (n + 1) \div 3 ELSE (n * 11) \div 32

\* Basic: (n + 1) / 3.  Percentage: ((n as f64) * 0.34375).ceil() as u32.
\* 0.34375 = 11/32 is a binary fraction and n < 2^32, so the f64 product is
\* exactly 11n/32 and its ceiling is (11n + 31) div 32.
new_min_breed_neighbors(rules, n) ==
    IF rules = "BasicRules" THEN (n + 1) \div 3 ELSE (n * 11 + 31) \div 32

\* A variant that reuses the breeding factor 0.34375 for the ceiling.
new_max_neighbors_breed_factor(rules, n) ==
    IF rules = "BasicRules" THEN (n + 1) \div 3 ELSE (n * 11) \div 32

\* Basic: (n + 1) / 3.  Percentage: ((n as f64) * 0.40625) as u32; 0.40625 =
\* 13/32 exactly, and the cast truncates, so this is 13n div 32.
new_max_neighbors(rules, n) ==
    IF rules = "BasicRules" THEN (n + 1) \div 3 ELSE (n * 13) \div 32

\* cells: vec![Cell::Dead; size.pow(dimensions)]
new_cells(dimensions, sz) ==
    [i \in 1..Pow(sz, dimensions) |-> "Dead"]

\* ------------------------------------------------------- coordinate codec
\* for (d, coord) in (1...dim).zip(coords) { index += size.pow(d - 1) * coord }
\* (assert_eq!(coords.len(), dim) holds of every call made here).
RECURSIVE tagged_coords_to_index(_, _, _)
tagged_coords_to_index(sz, dm, coords) ==
    IF dm = 0 THEN 0
    ELSE tagged_coords_to_index(sz, dm - 1, coords) + Pow(sz, dm - 1) * coords[dm]

\* The loop of tagged_index_to_coords from axis d down to axis 0; coords holds
\* the digits of the axes above d, and every digit is inserted at the front.
RECURSIVE index_to_coords_loop(_, _, _, _)
index_to_coords_loop(sz, d, index, coords) ==
    IF d < 0 THEN coords
    ELSE LET tmp_coord_scale == Pow(sz, d)
             tmp_coord == index \div tmp_coord_scale
         IN  index_to_coords_loop(sz, d - 1, index - tmp_coord * tmp_coord_scale,
                                  <<tmp_coord>> \o coords)

\* A variant that appends each digit instead of inserting it at the front.
RECURSIVE index_to_coords_loop_push(_, _, _, _)
index_to_coords_loop_push(sz, d, index, coords) ==
    IF d < 0 THEN coords
    ELSE LET tmp_coord_scale == Pow(sz, d)
             tmp_coord == index \div tmp_coord_scale
         IN  index_to_coords_loop_push(sz, d - 1, index - tmp_coord * tmp_coord_scale,
                                       Append(coords, tmp_coord))

\* A variant of the whole conversion built on the appending loop.
tagged_index_to_coords_push(sz, dm, index) ==
    index_to_coords_loop_push(sz, dm - 1, index, <<>>)

\* for d in (0...(dim - 1)).rev() { ... coords.insert(0, tmp_coord) }
tagged_index_to_coords(sz, dm, index) ==
    index_to_coords_loop(sz, dm - 1, index, <<>>)

\* ------------------------------------------------------ neighbour enumeration
\* The result of the match on n_d: the moved coordinate, or -1 for the None
\* of checked_sub / checked_add (which takes the break 'neighbor arm).
\* A variant that wraps around the axis instead of reporting None.
move_coord_wrap(sz, c, n_d) ==
    IF n_d = 1 THEN (IF c = 0 THEN sz - 1 ELSE c - 1)
    ELSE IF n_d = 2 THEN (IF c + 1 = sz THEN 0 ELSE c + 1)
    ELSE c

\* match n_d { 1 => checked_sub(1), 2 => checked_add(1), _ => n_coords[d] }
\* checked_add is None only at u32::MAX; a coordinate is below size, and a
\* grid of that axis length is never allocated, so that arm is not taken.
move_coord(sz, c, n_d) ==
    IF n_d = 1 THEN (IF c = 0 THEN -1 ELSE c - 1)
    ELSE IF n_d = 2 THEN c + 1
    ELSE c

\* The inner loop "for d in (0...(dim - 1)).rev()" of get_neighbor_indices from
\* axis d down: <<TRUE, n_coords>> when it runs to its end, <<FALSE, ...>> when
\* it leaves through break 'neighbor.
RECURSIVE offset_axes(_, _, _, _)
offset_axes(sz, n_coords, n, d) ==
    IF d < 0 THEN <<TRUE, n_coords>>
    ELSE LET tern_digit == Pow(3, d)
             n_d == n \div tern_digit
             moved == move_coord(sz, n_coords[d + 1], n_d)
         IN  IF moved = -1 THEN <<FALSE, n_coords>>
             ELSE IF moved = sz THEN <<FALSE, n_coords>>
             ELSE offset_axes(sz, [n_coords EXCEPT ![d + 1] = moved],
                              n - n_d * tern_digit, d - 1)

\* The loop "'neighbor: for n in 1..neighborhood".  break 'neighbor names the
\* outer loop, so the first candidate that leaves the grid ends the whole
\* enumeration: the candidates after it are never looked at.
RECURSIVE neighbor_loop(_, _, _, _, _)
neighbor_loop(sz, dm, coords, n, n_inds) ==
    IF n >= Pow(3, dm) THEN n_inds
    ELSE LET r == offset_axes(sz, coords, n, dm - 1)
         IN  IF ~r[1] THEN n_inds
             ELSE neighbor_loop(sz, dm, coords, n + 1,
                                Append(n_inds, tagged_coords_to_index(sz, dm, r[2])))

\* A variant whose loop starts at offset identifier 0, the cell itself.
get_neighbor_indices_from_zero(sz, dm, index) ==
    neighbor_loop(sz, dm, tagged_index_to_coords(sz, dm, index), 0, <<>>)

\* pub fn get_neighbor_indices(&self, index: usize) -> Vec<usize>
get_neighbor_indices(sz, dm, index) ==
    neighbor_loop(sz, dm, tagged_index_to_coords(sz, dm, index), 1, <<>>)

\* ------------------------------------------------------------------- step
\* pub fn get_cell(&self, index: usize) -> Cell
get_cell(cs, index) ==
    cs[index + 1]

\* The number of Alive cells among n_inds in last_state (the inner for loop
\* of step: one increment per listed index).
alive_neighbors(last_cells, n_inds) ==
    Cardinality({k \in 1..Len(n_inds) : get_cell(last_cells, n_inds[k]) = "Alive"})

\* The if / else-if of step for one cell; cell is its value so far.
next_cell(mn, mb, mx, alive, cell) ==
    IF alive < mn \/ alive > mx THEN "Dead"
    ELSE IF alive >= mb /\ alive <= mx THEN "Alive"
    ELSE cell

\* A variant that counts the neighbours in the cells being written.
RECURSIVE step_loop_in_place(_, _, _, _, _, _, _, _)
step_loop_in_place(sz, dm, mn, mb, mx, last_cells, cur, index) ==
    IF index >= Len(cur) THEN cur
    ELSE LET alive == alive_neighbors(cur, get_neighbor_indices(sz, dm, index))
         IN  step_loop_in_place(sz, dm, mn, mb, mx, last_cells,
                 [cur EXCEPT ![index + 1] = next_cell(mn, mb, mx, alive, cur[index + 1])],
                 index + 1)

\* for (index, cell) in self.cells.iter_mut().enumerate(): the cells are
\* written one after the other into cur, the neighbours are read from
\* last_cells, the clone taken before the loop.
RECURSIVE step_loop(_, _, _, _, _, _, _, _)
step_loop(sz, dm, mn, mb, mx, last_cells, cur, index) ==
    IF index >= Len(cur) THEN cur
    ELSE LET alive == alive_neighbors(last_cells, get_neighbor_indices(sz, dm, index))
         IN  step_loop(sz, dm, mn, mb, mx, last_cells,
                 [cur EXCEPT ![index + 1] = next_cell(mn, mb, mx, alive, cur[index + 1])],
                 index + 1)

\* A variant whose loop range ends one cell early and rebuilds the vector.
step_short_range(sz, dm, mn, mb, mx, cs) ==
    SubSeq(step_loop(sz, dm, mn, mb, mx, cs, cs, 0), 1, Len(cs) - 1)

\* pub fn step(&mut self): let last_state = self.clone(); then the loop.
step(sz, dm, mn, mb, mx, cs) ==
    step_loop(sz, dm, mn, mb, mx, cs, cs, 0)

\* ------------------------------------------------------------------ state
VARIABLES
    status,               \* "grid": a LifeSimulator value exists; "panic": a call panicked
    rules,                \* the LifeRules given to new
    dim,                  \* LifeSimulator.dim
    size,                 \* LifeSimulator.size
    cells,                \* LifeSimulator.cells
    min_neighbors,        \* LifeSimulator.min_neighbors
    min_breed_neighbors,  \* LifeSimulator.min_breed_neighbors
    max_neighbors,        \* LifeSimulator.max_neighbors
    lastOp,               \* the last call made on the simulator
    prevCells,            \* last_state.cells of the last step, <<>> otherwise
    q_index,              \* the index argument of the last query, -1 if none
    q_coords,             \* the coords argument of the last query
    r_index,              \* the index returned by the last coords_to_index
    r_coords,             \* the Vec returned by the last index_to_coords
    n_inds                \* the Vec returned by the last get_neighbor_indices

vars ==
    <<status, rules, dim, size, cells, min_neighbors, min_breed_neighbors,
      max_neighbors, lastOp, prevCells, q_index, q_coords, r_index, r_coords, n_inds>>

grid ==
    <<rules, dim, size, min_neighbors, min_breed_neighbors, max_neighbors>>

query ==
    <<q_index, q_coords, r_index, r_coords, n_inds>>

\* pub fn new(rules, dimensions, size) -> Self: the state right after it.  new
\* has no error path: it returns a LifeSimulator for every argument.
new(r, dimensions, sz) ==
    /\ status = "grid"
    /\ rules = r
    /\ dim = dimensions
    /\ size = sz
    /\ cells = new_cells(dimensions, sz)
    /\ min_neighbors = new_min_neighbors(r, num_neighbors(dimensions))
    /\ min_breed_neighbors = new_min_breed_neighbors(r, num_neighbors(dimensions))
    /\ max_neighbors = new_max_neighbors(r, num_neighbors(dimensions))
    /\ lastOp = "new"
    /\ prevCells = <<>>
    /\ q_index = -1
    /\ q_coords = <<>>
    /\ r_index = -1
    /\ r_coords = <<>>
    /\ n_inds = <<>>

\* The stepping machine is built with any arguments, zero included, whose
\* grid has at most MaxCells cells.
Init ==
    \E r \in LifeRules, dimensions \in 0..MaxDim, sz \in 0..MaxSize :
        /\ Pow(sz, dimensions) <= MaxCells
        /\ new(r, dimensions, sz)

\* game.step().  With dim = 0 and a cell to visit, get_neighbor_indices
\* evaluates dim - 1 on an unsigned 0 and the call does not return.
Step ==
    /\ status = "grid"
    /\ IF dim = 0 /\ Len(cells) > 0
       THEN /\ status' = "panic"
            /\ UNCHANGED <<cells, prevCells>>
       ELSE /\ status' = "grid"
            /\ prevCells' = cells
            /\ cells' = step(size, dim, min_neighbors, min_breed_neighbors,
                             max_neighbors, cells)
    /\ lastOp' = "step"
    /\ UNCHANGED <<grid, query>>

\* The vectors randomize_grid can leave: every cell is assigned
\* Cell::from(rng.gen::<bool>()).
randomize_grid(cs) ==
    [1..Len(cs) -> Cell]

\* game.randomize_grid()
RandomizeGrid ==
    /\ status = "grid"
    /\ cells' \in randomize_grid(cells)
    /\ lastOp' = "randomize_grid"
    /\ prevCells' = <<>>
    /\ UNCHANGED <<status, grid, query>>

\* *game.mut_cell(index) = val; indexing past the end of cells panics.
MutCell ==
    /\ status = "grid"
    /\ \E index \in 0..Len(cells), val \in Cell :
        IF index < Len(cells)
        THEN /\ cells' = [cells EXCEPT ![index + 1] = val]
             /\ status' = "grid"
        ELSE /\ status' = "panic"
             /\ UNCHANGED cells
    /\ lastOp' = "mut_cell"
    /\ prevCells' = <<>>
    /\ UNCHANGED <<grid, query>>

Next ==
    \/ Step
    \/ RandomizeGrid
    \/ MutCell

Spec ==
    Init /\ [][Next]_vars

\* --------------------------------------------------------- the pure queries
\* A grid with at least one cell on every axis, on which the public queries
\* are called; the cells stay as new left them.
InitQuery ==
    \E r \in LifeRules, dimensions \in 1..QMaxDim, sz \in 1..QMaxSize :
        new(r, dimensions, sz)

\* game.get_neighbor_indices(index), index an index of the grid.
GetNeighborIndices ==
    /\ status = "grid"
    /\ \E index \in 0..(Len(cells) - 1) :
        /\ q_index' = index
        /\ n_inds' = get_neighbor_indices(size, dim, index)
    /\ q_coords' = <<>>
    /\ r_index' = -1
    /\ r_coords' = <<>>
    /\ lastOp' = "get_neighbor_indices"
    /\ UNCHANGED <<status, grid, cells, prevCells>>

\* game.index_to_coords(index), index an index of the grid.
IndexToCoords ==
    /\ status = "grid"
    /\ \E index \in 0..(Len(cells) - 1) :
        /\ q_index' = index
        /\ r_coords' = tagged_index_to_coords(size, dim, index)
    /\ q_coords' = <<>>
    /\ r_index' = -1
    /\ n_inds' = <<>>
    /\ lastOp' = "index_to_coords"
    /\ UNCHANGED <<status, grid, cells, prevCells>>

\* game.coords_to_index(&coords), coords a position of the grid.
CoordsToIndex ==
    /\ status = "grid"
    /\ \E coords \in [1..dim -> 0..(size - 1)] :
        /\ q_coords' = coords
        /\ r_index' = tagged_coords_to_index(size, dim, coords)
    /\ q_index' = -1
    /\ r_coords' = <<>>
    /\ n_inds' = <<>>
    /\ lastOp' = "coords_to_index"
    /\ UNCHANGED <<status, grid, cells, prevCells>>

NextQuery ==
    \/ GetNeighborIndices
    \/ IndexToCoords
    \/ CoordsToIndex

SpecQuery ==
    InitQuery /\ [][NextQuery]_vars

\* ------------------------------------------------------------- properties
\* The coordinate of cell i on axis d (counted from 1) under base-size
\* positional encoding, axis 1 least significant.
Digit(i, d) ==
    (i \div Pow(size, d - 1)) % size

Abs(x) ==
    IF x < 0 THEN -x ELSE x

\* The indices of the in-bounds Moore neighbours of cell i.
MooreNeighbors(i) ==
    {j \in 0..(Pow(size, dim) - 1) :
        /\ j # i
        /\ \A d \in 1..dim : Abs(Digit(j, d) - Digit(i, d)) <= 1}

Range(s) ==
    {s[k] : k \in 1..Len(s)}

\* Cell i has no coordinate equal to 0 or size - 1.
Interior(i) ==
    \A d \in 1..dim : Digit(i, d) # 0 /\ Digit(i, d) # size - 1

\* C1: get_neighbor_indices(i) returns exactly the indices of the in-bounds
\* Moore neighbours of i, also for a cell on the boundary of the grid.
NeighborsExhaustive ==
    lastOp = "get_neighbor_indices" => Range(n_inds) = MooreNeighbors(q_index)

\* C5: an interior cell gets exactly 3^dim - 1 pairwise distinct indices, a
\* boundary cell strictly fewer, and every index lies in [0, size^dim).
NeighborCountBound ==
    lastOp = "get_neighbor_indices" =>
        /\ Interior(q_index) =>
            /\ Len(n_inds) = Pow(3, dim) - 1
            /\ Cardinality(Range(n_inds)) = Len(n_inds)
        /\ ~Interior(q_index) => Len(n_inds) < Pow(3, dim) - 1
        /\ \A k \in 1..Len(n_inds) : n_inds[k] >= 0 /\ n_inds[k] < Pow(size, dim)

\* The centre cell of the 3 x 3 x 3 grid was asked for and got 26 indices.
NeighborCountWitness ==
    /\ lastOp = "get_neighbor_indices"
    /\ dim = 3 /\ size = 3 /\ q_index = 13
    /\ Len(n_inds) = 26

\* C6: every returned index decodes to a position at distance at most 1 from
\* the cell on every axis and exactly 1 on some axis; cell (0,0) of a 2-D
\* grid of size >= 3 never lists (size-1, size-1).
NoWraparound ==
    lastOp = "get_neighbor_indices" =>
        /\ \A k \in 1..Len(n_inds) :
            LET c  == tagged_index_to_coords(size, dim, n_inds[k])
                me == tagged_index_to_coords(size, dim, q_index)
            IN  /\ n_inds[k] # q_index
                /\ \A d \in 1..dim : Abs(c[d] - me[d]) <= 1
                /\ \E d \in 1..dim : Abs(c[d] - me[d]) = 1
        /\ (dim = 2 /\ size >= 3 /\ q_index = 0) =>
            tagged_coords_to_index(size, dim, <<size - 1, size - 1>>) \notin Range(n_inds)

\* A cell in the last row and column of a 2-D grid was asked for, its "after"
\* candidates leave the grid, and it got an index.
NoWraparoundWitness ==
    /\ lastOp = "get_neighbor_indices"
    /\ dim = 2 /\ size = 3 /\ q_index = 8
    /\ Len(n_inds) >= 1

\* C4: index_to_coords yields dim components, each in [0, size), that
\* coords_to_index maps back to the index; index_to_coords of
\* coords_to_index(coords) is coords; axis 0 is the least significant digit.
CodecRoundTrip ==
    /\ lastOp = "index_to_coords" =>
        /\ Len(r_coords) = dim
        /\ \A d \in 1..dim : r_coords[d] >= 0 /\ r_coords[d] < size
        /\ tagged_coords_to_index(size, dim, r_coords) = q_index
        /\ \A d \in 1..dim : r_coords[d] = Digit(q_index, d)
    /\ lastOp = "coords_to_index" =>
        /\ r_index >= 0 /\ r_index < Pow(size, dim)
        /\ \A d \in 1..dim : tagged_index_to_coords(size, dim, r_index)[d] = q_coords[d]
        /\ Len(tagged_index_to_coords(size, dim, r_index)) = dim
        /\ q_coords[1] + 1 < size =>
            tagged_coords_to_index(size, dim, [q_coords EXCEPT ![1] = @ + 1]) = r_index + 1

\* Position (1, 2, 3) of the 4 x 4 x 4 grid was encoded, as 1 + 2*4 + 3*16.
CodecWitness ==
    /\ lastOp = "coords_to_index"
    /\ dim = 3 /\ size = 4
    /\ q_coords[1] = 1 /\ q_coords[2] = 2 /\ q_coords[3] = 3
    /\ r_index = 57

\* The alive-neighbour count of cell i in the cells cs, over the set of
\* indices get_neighbor_indices lists for i.
AliveIn(cs, i) ==
    Cardinality({j \in Range(get_neighbor_indices(size, dim, i)) : cs[j + 1] = "Alive"})

\* C2: after step() every cell is Dead, Alive or unchanged according to the
\* alive-neighbour count taken in the cells as they were before the step.
StepSynchronous ==
    (lastOp = "step" /\ status = "grid") =>
        /\ Len(cells) = Len(prevCells)
        /\ \A i \in 0..(Len(cells) - 1) :
            LET alive == AliveIn(prevCells, i)
            IN  cells[i + 1] =
                    IF alive < min_neighbors \/ alive > max_neighbors THEN "Dead"
                    ELSE IF min_breed_neighbors <= alive /\ alive <= max_neighbors
                         THEN "Alive"
                    ELSE prevCells[i + 1]

\* One step of a 3 x 3 grid both set a Dead cell Alive and killed an Alive one.
StepSynchronousWitness ==
    /\ lastOp = "step" /\ status = "grid"
    /\ dim = 2 /\ size = 3
    /\ \E i \in 1..Len(cells) : prevCells[i] = "Dead" /\ cells[i] = "Alive"
    /\ \E i \in 1..Len(cells) : prevCells[i] = "Alive" /\ cells[i] = "Dead"

\* C3: on the 1-D BasicRules grid of size 5, one step takes
\* [Dead, Alive, Dead, Dead, Dead] to [Alive, Alive, Alive, Dead, Dead].
EndToEndScenario ==
    (/\ lastOp = "step" /\ status = "grid"
     /\ rules = "BasicRules" /\ dim = 1 /\ size = 5
     /\ prevCells = <<"Dead", "Alive", "Dead", "Dead", "Dead">>)
        => cells = <<"Alive", "Alive", "Alive", "Dead", "Dead">>

\* floor(a / b) and ceil(a / b) for a >= 0, b > 0, by their defining
\* inequalities.
FloorDiv(a, b) ==
    CHOOSE k \in 0..a : b * k <= a /\ a < b * (k + 1)

CeilDiv(a, b) ==
    CHOOSE k \in 0..a : b * k >= a /\ b * (k - 1) < a

CanBreed ==
    \E alive \in 0..(Pow(3, dim) - 1) :
        next_cell(min_neighbors, min_breed_neighbors, max_neighbors, alive, "Dead") = "Alive"

\* C8 as stated: for every dim >= 1 and both variants
\* min_breed_neighbors <= max_neighbors, so some count sets a cell Alive.
BreedWithinMax ==
    dim >= 1 => (min_breed_neighbors <= max_neighbors /\ CanBreed)

\* C8 amended: that holds for every dim >= 2, and for dim = 1 under
\* BasicRules; new(PercentageRules, 1, size) stores min_breed_neighbors = 1
\* above max_neighbors = 0, and no count sets a cell Alive.
BreedWithinMaxFrom2D ==
    /\ (dim >= 2 \/ (dim = 1 /\ rules = "BasicRules")) =>
        (min_breed_neighbors <= max_neighbors /\ CanBreed)
    /\ (dim = 1 /\ rules = "PercentageRules") =>
        (min_breed_neighbors = 1 /\ max_neighbors = 0 /\ ~CanBreed)

\* A step of a 2-D PercentageRules grid set a Dead cell Alive.
BreedWitness ==
    /\ lastOp = "step" /\ status = "grid"
    /\ rules = "PercentageRules" /\ dim = 2
    /\ min_breed_neighbors <= max_neighbors
    /\ \E i \in 1..Len(cells) : prevCells[i] = "Dead" /\ cells[i] = "Alive"

\* C9: new with dimensions = 0 or size = 0 yields an error and no grid, so
\* no call is ever made on such a grid.
DegenerateRejected ==
    (dim = 0 \/ size = 0) => (status = "error" /\ lastOp = "new")

\* C10: the grid always has size^dim cells, and no call changes the number
\* of cells, dim, size, the rules or a threshold.
ShapeFrozen ==
    /\ [](Len(cells) = Pow(size, dim))
    /\ [][Len(cells') = Len(cells) /\ UNCHANGED grid]_vars

\* A 3 x 3 grid was written to and stepped, and holds an Alive cell.
ShapeFrozenWitness ==
    /\ lastOp = "step" /\ status = "grid"
    /\ dim = 2 /\ size = 3 /\ Len(cells) = 9
    /\ \E i \in 1..Len(cells) : cells[i] = "Alive"
    /\ \E i \in 1..Len(cells) : cells[i] # prevCells[i]

====
